---------------------------- MODULE Spec2Model ----------------------------
(***************************************************************************)
(* Model of the two T-Deck hardware test suite (test_two_t_decks.py) and   *)
(* of the device selection of its two helper scripts.                      *)
(*                                                                         *)
(* Strings.  Python str values are named by TLA+ strings; `chars' spells   *)
(* each of them as the tuple of its characters, and str.lower(), the `in'  *)
(* substring test and re.search work on those tuples.                      *)
(*                                                                         *)
(* Time.  `now' is time.time() in whole seconds, counted from the start of *)
(* test_mesh_communication.  Plain statements take no time; time passes    *)
(* only inside blocking calls (opening the port, readline, Queue.get,      *)
(* Thread.join), and a call with a timeout returns by its deadline.        *)
(* Events on the queue are (device_name, line): the timestamp component of *)
(* the tuple is written at line 126 and never read (line 170 binds and     *)
(* ignores it), so it is left out.                                         *)
(***************************************************************************)
EXTENDS Integers, Sequences, FiniteSets, TLC

VARIABLES
    args,             \* parsed command line (main, lines 353-358)
    comports,         \* what serial.tools.list_ports.comports() returns
    emits,            \* how many lines each device has to emit while it is monitored
    interrupted_at,   \* position of the main thread when KeyboardInterrupt was raised
    deps,             \* check_hardware_deps.py: position and what check_usb_devices returned
    helper,           \* flash_t_decks_helper.py: position, ports flashed and exit status
    pc,               \* position of the main thread
    ports,            \* run_tests: ports
    devices,          \* self.devices
    fi,               \* run_tests: index of the flash loop
    flash_results,    \* run_tests: flash_results
    flash_calls,      \* history: the subprocess.run invocations, in order
    flash_outcome,    \* flash_firmware: how the pending subprocess.run ended
    settles,          \* history: the device names whose flash was followed by sleep(10)
    workers,          \* the monitor threads started so far
    output_queue,     \* test_mesh_communication: output_queue
    put_log,          \* history: the lines each worker has put on the queue
    device_logs,      \* test_mesh_communication: device_logs
    now,              \* time.time()
    start_time,       \* test_mesh_communication: start_time of the collection loop
    deadline,         \* when the main thread's pending get/join times out
    ji,               \* index of the join loop
    analysis,         \* what analyze_log_output returned
    success_criteria, \* test_mesh_communication: success_criteria
    mesh_result,      \* run_tests: mesh_result
    report,           \* what generate_test_report returned
    report_file,      \* content of kyber_t_deck_test_report.txt
    exit_code         \* status passed to sys.exit

vars == <<args, comports, emits, interrupted_at, deps, helper,
          pc, ports, devices, fi, flash_results, flash_calls, flash_outcome,
          settles,
          workers, output_queue, put_log, device_logs, now, start_time, deadline, ji,
          analysis, success_criteria, mesh_result, report, report_file, exit_code>>

-----------------------------------------------------------------------------
(* Bounds of the model *)

\* longest device log drawn for the analyzer
MaxLogLen == 3
\* largest per-device error count drawn for the verdict
MaxCount == 5
\* largest per-device count of exchange attempts drawn for the verdict
MaxAttempts == 1
\* most serial endpoints enumerated
MaxPorts == 3
\* most lines a device emits while it is monitored
MaxLines == 1
\* longest time, in seconds, opening a serial port takes
MaxOpenDelay == 6
\* longest device log drawn for the error criterion
MaxErrorLines == 6

-----------------------------------------------------------------------------
(* Strings *)

chars ==
    "KyberCryptoEngine created" :> <<"K", "y", "b", "e", "r", "C", "r", "y", "p", "t", "o", "E", "n", "g", "i", "n", "e", " ", "c", "r", "e", "a", "t", "e", "d">> @@
    "Kyber keypair generated" :> <<"K", "y", "b", "e", "r", " ", "k", "e", "y", "p", "a", "i", "r", " ", "g", "e", "n", "e", "r", "a", "t", "e", "d">> @@
    "KYBER_MSG_KEY_EXCHANGE_REQUEST sent" :> <<"K", "Y", "B", "E", "R", "_", "M", "S", "G", "_", "K", "E", "Y", "_", "E", "X", "C", "H", "A", "N", "G", "E", "_", "R", "E", "Q", "U", "E", "S", "T", " ", "s", "e", "n", "t">> @@
    "quantum security active" :> <<"q", "u", "a", "n", "t", "u", "m", " ", "s", "e", "c", "u", "r", "i", "t", "y", " ", "a", "c", "t", "i", "v", "e">> @@
    "KYBER_MSG_KEY_EXCHANGE_REQUEST failed" :> <<"K", "Y", "B", "E", "R", "_", "M", "S", "G", "_", "K", "E", "Y", "_", "E", "X", "C", "H", "A", "N", "G", "E", "_", "R", "E", "Q", "U", "E", "S", "T", " ", "f", "a", "i", "l", "e", "d">> @@
    "ERROR radio" :> <<"E", "R", "R", "O", "R", " ", "r", "a", "d", "i", "o">> @@
    "mesh packet received" :> <<"m", "e", "s", "h", " ", "p", "a", "c", "k", "e", "t", " ", "r", "e", "c", "e", "i", "v", "e", "d">> @@
    "boot ok" :> <<"b", "o", "o", "t", " ", "o", "k">> @@
    "Kyber" :> <<"K", "y", "b", "e", "r">> @@
    "initialized" :> <<"i", "n", "i", "t", "i", "a", "l", "i", "z", "e", "d">> @@
    "KyberCryptoEngine" :> <<"K", "y", "b", "e", "r", "C", "r", "y", "p", "t", "o", "E", "n", "g", "i", "n", "e">> @@
    "created" :> <<"c", "r", "e", "a", "t", "e", "d">> @@
    "generateKeyPair" :> <<"g", "e", "n", "e", "r", "a", "t", "e", "K", "e", "y", "P", "a", "i", "r">> @@
    "success" :> <<"s", "u", "c", "c", "e", "s", "s">> @@
    "Initiating Kyber key exchange" :> <<"I", "n", "i", "t", "i", "a", "t", "i", "n", "g", " ", "K", "y", "b", "e", "r", " ", "k", "e", "y", " ", "e", "x", "c", "h", "a", "n", "g", "e">> @@
    "KYBER_MSG_KEY_EXCHANGE_REQUEST" :> <<"K", "Y", "B", "E", "R", "_", "M", "S", "G", "_", "K", "E", "Y", "_", "E", "X", "C", "H", "A", "N", "G", "E", "_", "R", "E", "Q", "U", "E", "S", "T">> @@
    "chunk" :> <<"c", "h", "u", "n", "k">> @@
    "KYBER_MSG_KEY_CHUNK" :> <<"K", "Y", "B", "E", "R", "_", "M", "S", "G", "_", "K", "E", "Y", "_", "C", "H", "U", "N", "K">> @@
    "Kyber session established" :> <<"K", "y", "b", "e", "r", " ", "s", "e", "s", "s", "i", "o", "n", " ", "e", "s", "t", "a", "b", "l", "i", "s", "h", "e", "d">> @@
    "quantum security" :> <<"q", "u", "a", "n", "t", "u", "m", " ", "s", "e", "c", "u", "r", "i", "t", "y">> @@
    "active" :> <<"a", "c", "t", "i", "v", "e">> @@
    "quantum" :> <<"q", "u", "a", "n", "t", "u", "m">> @@
    "security" :> <<"s", "e", "c", "u", "r", "i", "t", "y">> @@
    "enabled" :> <<"e", "n", "a", "b", "l", "e", "d">> @@
    "packet" :> <<"p", "a", "c", "k", "e", "t">> @@
    "received" :> <<"r", "e", "c", "e", "i", "v", "e", "d">> @@
    "sent" :> <<"s", "e", "n", "t">> @@
    "mesh" :> <<"m", "e", "s", "h">> @@
    "message" :> <<"m", "e", "s", "s", "a", "g", "e">> @@
    "ERROR" :> <<"E", "R", "R", "O", "R">> @@
    "FAIL" :> <<"F", "A", "I", "L">> @@
    "error" :> <<"e", "r", "r", "o", "r">> @@
    "fail" :> <<"f", "a", "i", "l">> @@
    "cp210" :> <<"c", "p", "2", "1", "0">> @@
    "esp32" :> <<"e", "s", "p", "3", "2">> @@
    "serial" :> <<"s", "e", "r", "i", "a", "l">> @@
    "usb" :> <<"u", "s", "b">> @@
    "uart" :> <<"u", "a", "r", "t">> @@
    "CP2102 USB to UART Bridge" :> <<"C", "P", "2", "1", "0", "2", " ", "U", "S", "B", " ", "t", "o", " ", "U", "A", "R", "T", " ", "B", "r", "i", "d", "g", "e">> @@
    "USB Serial" :> <<"U", "S", "B", " ", "S", "e", "r", "i", "a", "l">> @@
    "ESP32-S3" :> <<"E", "S", "P", "3", "2", "-", "S", "3">> @@
    "UART Bridge" :> <<"U", "A", "R", "T", " ", "B", "r", "i", "d", "g", "e">> @@
    "Bluetooth" :> <<"B", "l", "u", "e", "t", "o", "o", "t", "h">> @@
    "None" :> <<"N", "o", "n", "e">>

UpperCase == <<"A", "B", "C", "D", "E", "F", "G", "H", "I", "J", "K", "L", "M",
               "N", "O", "P", "Q", "R", "S", "T", "U", "V", "W", "X", "Y", "Z">>

LowerCase == <<"a", "b", "c", "d", "e", "f", "g", "h", "i", "j", "k", "l", "m",
               "n", "o", "p", "q", "r", "s", "t", "u", "v", "w", "x", "y", "z">>

\* str.lower() of one character
lower_char(c) ==
    IF \E i \in 1..Len(UpperCase) : UpperCase[i] = c
    THEN LowerCase[CHOOSE i \in 1..Len(UpperCase) : UpperCase[i] = c]
    ELSE c

\* str.lower()
lower(s) == [i \in 1..Len(s) |-> lower_char(s[i])]

\* s[pos : pos + len(lit)] == lit
has_at(s, pos, lit) ==
    /\ pos + Len(lit) - 1 <= Len(s)
    /\ \A i \in 1..Len(lit) : s[pos + i - 1] = lit[i]

\* the Python test `keyword in s'
contains(s, keyword) == \E pos \in 1..(Len(s) + 1) : has_at(s, pos, keyword)

Min(a, b) == IF a <= b THEN a ELSE b

(* Regular expressions.  A pattern is a sequence of alternatives (the `|'   *)
(* of the pattern), an alternative a sequence of pieces: a literal, `.*',   *)
(* `.{0,n}' or a group of literal alternatives.                             *)
Lit(str) == [k |-> "lit", s |-> chars[str]]
Star == [k |-> "star"]
Gap(n) == [k |-> "gap", n |-> n]
Grp(strs) == [k |-> "grp", opts |-> {chars[x] : x \in strs}]

RECURSIVE match_from(_, _, _, _)
\* pieces k.. of alternative alt match s from position pos on
match_from(alt, k, s, pos) ==
    IF k > Len(alt) THEN TRUE
    ELSE LET p == alt[k] IN
         CASE p.k = "lit" ->
                  /\ has_at(s, pos, p.s)
                  /\ match_from(alt, k + 1, s, pos + Len(p.s))
           [] p.k = "star" ->
                  \E j \in pos..(Len(s) + 1) : match_from(alt, k + 1, s, j)
           [] p.k = "gap" ->
                  \E j \in pos..Min(pos + p.n, Len(s) + 1) : match_from(alt, k + 1, s, j)
           [] p.k = "grp" ->
                  \E o \in p.opts :
                      /\ has_at(s, pos, o)
                      /\ match_from(alt, k + 1, s, pos + Len(o))

\* re.search(pattern, s) is not None; matching is case-sensitive (no re.IGNORECASE)
re_search(pattern, s) ==
    \E a \in 1..Len(pattern) : \E pos \in 1..(Len(s) + 1) : match_from(pattern[a], 1, s, pos)

-----------------------------------------------------------------------------
(* Log Analyzer *)

patterns ==
    [kyber_init |->
        << <<Lit("Kyber"), Star, Lit("initialized")>>,
           <<Lit("KyberCryptoEngine"), Star, Lit("created")>> >>,
     key_generation |->
        << <<Lit("Kyber keypair generated")>>,
           <<Lit("generateKeyPair"), Star, Lit("success")>> >>,
     key_exchange_start |->
        << <<Lit("Initiating Kyber key exchange")>>,
           <<Lit("KYBER_MSG_KEY_EXCHANGE_REQUEST")>> >>,
     key_chunk |->
        << <<Lit("Kyber"), Star, Lit("chunk")>>,
           <<Lit("KYBER_MSG_KEY_CHUNK")>> >>,
     session_established |->
        << <<Lit("Kyber session established")>>,
           <<Lit("quantum security"), Star, Lit("active")>> >>,
     quantum_security |->
        << <<Lit("quantum"), Gap(20), Lit("security"), Gap(20), Grp({"active", "enabled"})>> >>,
     mesh_packet |->
        << <<Lit("packet"), Star, Lit("received")>>,
           <<Lit("packet"), Star, Lit("sent")>>,
           <<Lit("mesh"), Star, Lit("message")>> >>,
     error |->
        << <<Lit("ERROR")>>, <<Lit("FAIL")>>, <<Lit("error")>>, <<Lit("fail")>> >>]

\* the lines a device may emit
Lines == {"KyberCryptoEngine created", "Kyber keypair generated",
          "KYBER_MSG_KEY_EXCHANGE_REQUEST sent", "quantum security active",
          "KYBER_MSG_KEY_EXCHANGE_REQUEST failed", "ERROR radio",
          "mesh packet received", "boot ok"}

\* line_lower = line.lower()
line_lower(line) == lower(chars[line])

\* re.search(patterns[name], line_lower), for every line and pattern name
matches ==
    [line \in Lines |->
        [name \in DOMAIN patterns |-> re_search(patterns[name], line_lower(line))]]

\* the metrics of one device before its log is scanned (lines 162-168)
initial_metrics ==
    [kyber_init |-> FALSE, key_generation |-> FALSE, key_exchange_attempts |-> 0,
     sessions_established |-> 0, quantum_security_active |-> FALSE,
     mesh_packets |-> 0, errors |-> 0]

\* the iteration with the error count kept as a flag: set to 1 instead of incremented
scan_line_error_flag(r, line) ==
    LET m == matches[line]
        inc(hit) == IF hit THEN 1 ELSE 0
    IN  [kyber_init              |-> r.kyber_init \/ m.kyber_init,
         key_generation          |-> r.key_generation \/ m.key_generation,
         key_exchange_attempts   |-> r.key_exchange_attempts + inc(m.key_exchange_start),
         sessions_established    |-> r.sessions_established + inc(m.session_established),
         quantum_security_active |-> r.quantum_security_active \/ m.quantum_security,
         mesh_packets            |-> r.mesh_packets + inc(m.mesh_packet),
         errors                  |-> IF m.error THEN 1 ELSE r.errors]

\* the iteration with the flags assigned from the current line: the last line decides
scan_line_last_wins(r, line) ==
    LET m == matches[line]
        inc(hit) == IF hit THEN 1 ELSE 0
    IN  [kyber_init              |-> m.kyber_init,
         key_generation          |-> m.key_generation,
         key_exchange_attempts   |-> r.key_exchange_attempts + inc(m.key_exchange_start),
         sessions_established    |-> r.sessions_established + inc(m.session_established),
         quantum_security_active |-> m.quantum_security,
         mesh_packets            |-> r.mesh_packets + inc(m.mesh_packet),
         errors                  |-> r.errors + inc(m.error)]

\* one iteration of `for timestamp, line in logs' (lines 170-193)
scan_line(r, line) ==
    LET m == matches[line]
        inc(hit) == IF hit THEN 1 ELSE 0
    IN  [kyber_init              |-> r.kyber_init \/ m.kyber_init,
         key_generation          |-> r.key_generation \/ m.key_generation,
         key_exchange_attempts   |-> r.key_exchange_attempts + inc(m.key_exchange_start),
         sessions_established    |-> r.sessions_established + inc(m.session_established),
         quantum_security_active |-> r.quantum_security_active \/ m.quantum_security,
         mesh_packets            |-> r.mesh_packets + inc(m.mesh_packet),
         errors                  |-> r.errors + inc(m.error)]

RECURSIVE scan_logs(_, _, _)
\* the loop over one device's log, from entry i on
scan_logs(r, logs, i) ==
    IF i > Len(logs) THEN r ELSE scan_logs(scan_line(r, logs[i]), logs, i + 1)

\* entries created only for the devices whose log has a line
analyzed_devices_with_lines(logs) == {d \in DOMAIN logs : logs[d] # <<>>}

\* the device names that get an entry in every category (line 161)
analyzed_devices(logs) == DOMAIN logs

\* analyze_log_output: results[category][device_name]
analyze_log_output(logs) ==
    LET per == [d \in analyzed_devices(logs) |-> scan_logs(initial_metrics, logs[d], 1)]
    IN  [c \in DOMAIN initial_metrics |-> [d \in DOMAIN per |-> per[d][c]]]

\* the results dictionary before any device is analyzed (lines 139-147)
empty_results == [c \in DOMAIN initial_metrics |-> <<>>]

-----------------------------------------------------------------------------
(* Verdict *)

\* all(d.values())
all_values(d) == \A k \in DOMAIN d : d[k]

RECURSIVE sum_over(_, _)
sum_over(d, keys) ==
    IF keys = {} THEN 0
    ELSE LET k == CHOOSE x \in keys : TRUE IN d[k] + sum_over(d, keys \ {k})

\* sum(d.values())
sum_values(d) == sum_over(d, DOMAIN d)

\* the error threshold of the low_errors criterion (line 253)
ErrorLimit == 5

\* the threshold test written with <= instead of <
low_errors_inclusive(errors) == \A d \in DOMAIN errors : errors[d] <= ErrorLimit

\* all(count < 5 for count in analysis['errors'].values())
low_errors(errors) == \A d \in DOMAIN errors : errors[d] < ErrorLimit

\* success_criteria (lines 249-254)
criteria(a) ==
    [both_init     |-> all_values(a.kyber_init),
     both_keygen   |-> all_values(a.key_generation),
     key_exchanges |-> sum_values(a.key_exchange_attempts) > 0,
     low_errors    |-> low_errors(a.errors)]

\* overall_success = all(success_criteria.values()) (line 256)
overall_success(c) == all_values(c)

-----------------------------------------------------------------------------
(* Report and result of the run *)

\* the result of the run taken from the mesh verdict alone
run_success_mesh_only(flash, mesh) == mesh

\* all(flash_results.values()) and mesh_result (lines 291 and 350)
run_success(flash, mesh) == all_values(flash) /\ mesh

\* generate_test_report; the Test Date line is left out
generate_test_report(flash, mesh) ==
    [devices_tested |-> Len(devices),
     flashing       |-> [d \in DOMAIN flash |-> IF flash[d] THEN "SUCCESS" ELSE "FAILED"],
     mesh           |-> IF mesh THEN "SUCCESS" ELSE "FAILED",
     overall        |-> IF run_success(flash, mesh)
                        THEN "ALL TESTS PASSED" ELSE "SOME TESTS FAILED"]

\* sys.exit(0 if success else 1) (line 364)
exit_status(success) == IF success THEN 0 ELSE 1

\* f"T-Deck-{i+1}" for the i-th port, counted from 1 here
DeviceName == <<"T-Deck-1", "T-Deck-2", "T-Deck-3", "T-Deck-4">>

\* the keys of device_logs (line 201)
LogDevices == {"T-Deck-1", "T-Deck-2"}

\* value of report and report_file while there is none
NoReport == <<>>
\* value of exit_code while the process runs
Running == -1
\* value of interrupted_at while no KeyboardInterrupt was raised
NotInterrupted == "never"

-----------------------------------------------------------------------------
(* Device Locator *)

\* the keyword list of find_t_deck_devices (line 62)
keywords == <<"cp210", "esp32", "serial", "usb">>

\* any(keyword in text.lower() for keyword in [...]) (lines 61-62)
any_keyword_in(text) ==
    \E k \in 1..Len(keywords) : contains(lower(chars[text]), chars[keywords[k]])

\* port.device of the i-th enumerated endpoint
PortName == <<"/dev/ttyUSB0", "/dev/ttyUSB1", "/dev/ttyUSB2", "/dev/ttyUSB3", "/dev/ttyUSB4">>

\* str(port.description) of an endpoint; "None" is str(None)
Descriptions == {"CP2102 USB to UART Bridge", "USB Serial", "ESP32-S3", "UART Bridge",
                 "Bluetooth", "None"}

\* the test of lines 61-62, for every description
description_matches == [d \in Descriptions |-> any_keyword_in(d)]

\* whether an enumerated endpoint is taken for a T-Deck
is_candidate(port) == description_matches[port.description]

RECURSIVE t_deck_ports(_, _)
\* the loop of lines 59-64 from entry i on: port.device of every candidate, in order
t_deck_ports(cp, i) ==
    IF i > Len(cp) THEN <<>>
    ELSE (IF is_candidate(cp[i]) THEN <<cp[i].device>> ELSE <<>>) \o t_deck_ports(cp, i + 1)

\* the slice taken from the end of the list: t_deck_ports[-2:]
last_two(s) == SubSeq(s, Len(s) - Min(2, Len(s)) + 1, Len(s))

\* t_deck_ports[:2]
first_two(s) == SubSeq(s, 1, Min(2, Len(s)))

\* find_t_deck_devices
find_t_deck_devices(cp) ==
    LET found == t_deck_ports(cp, 1)
    IN  IF Len(found) < 2 THEN <<>> ELSE first_two(found)

\* the early return with its comparison reversed
too_few_reversed(p) == Len(p) > 2

\* run_tests: `if len(ports) < 2: return False' (line 309)
too_few(p) == Len(p) < 2

\* the enumerations of n endpoints
EnumerationsOf(n) ==
    {[i \in 1..n |-> [device |-> PortName[i], description |-> d[i]]] :
        d \in [1..n -> Descriptions]}

\* every enumeration of at most MaxPorts endpoints
Enumerations == UNION {EnumerationsOf(n) : n \in 0..MaxPorts}

\* the enumerations a whole run is started with: none, one or two of three endpoints match
RunEnumerations ==
    {e \in EnumerationsOf(3) :
        /\ e[2].description = "Bluetooth"
        /\ e[1].description \in {"USB Serial", "None"}
        /\ e[3].description \in {"ESP32-S3", "None"}}

-----------------------------------------------------------------------------
(* The helper scripts: check_hardware_deps.py and flash_t_decks_helper.py *)

\* the keyword list of check_usb_devices (check_hardware_deps.py, line 47)
check_keywords == <<"cp210", "esp32", "serial", "usb", "uart">>

\* the keyword list of the flash helper (flash_t_decks_helper.py, line 21)
helper_keywords == <<"cp210", "esp32", "serial", "usb">>

\* any(keyword in str(port.description).lower() for keyword in kws)
any_of_in(kws, text) ==
    \E k \in 1..Len(kws) : contains(lower(chars[text]), chars[kws[k]])

\* the test of check_usb_devices (lines 46-47), for every description
potential_matches == [d \in Descriptions |-> any_of_in(check_keywords, d)]

\* the test of the flash helper (line 21), for every description
helper_matches == [d \in Descriptions |-> any_of_in(helper_keywords, d)]

RECURSIVE potential_devices(_, _)
\* check_usb_devices, lines 44-48, from entry i on: the ports that match, in order
potential_devices(cp, i) ==
    IF i > Len(cp) THEN <<>>
    ELSE (IF potential_matches[cp[i].description] THEN <<cp[i]>> ELSE <<>>)
             \o potential_devices(cp, i + 1)

\* what check_usb_devices returns (line 64)
check_usb_devices(cp) == Len(potential_devices(cp, 1)) >= 2

RECURSIVE helper_t_deck_ports(_, _)
\* the flash helper, lines 18-22, from entry i on: port.device of every match, in order
helper_t_deck_ports(cp, i) ==
    IF i > Len(cp) THEN <<>>
    ELSE (IF helper_matches[cp[i].description] THEN <<cp[i].device>> ELSE <<>>)
             \o helper_t_deck_ports(cp, i + 1)

\* the two scripts before they are run
deps_not_run == [pc |-> "start", ready |-> FALSE]
helper_not_run == [pc |-> "start", flashed |-> <<>>, exit_code |-> Running]

-----------------------------------------------------------------------------
(* Command line *)

\* default of --test-duration (line 356)
DefaultDuration == 90
\* a --test-duration given on the command line
ShortDuration == 30

\* the argument vectors a run is started with
Args ==
    {[skip_flash |-> FALSE, test_duration |-> DefaultDuration],
     [skip_flash |-> TRUE,  test_duration |-> ShortDuration]}

-----------------------------------------------------------------------------
(* Flash Orchestrator *)

\* how subprocess.run may end: exit status 0, another exit status,
\* subprocess.TimeoutExpired after 300 s, or another Exception
FlashOutcomes == {"exit0", "nonzero", "timeout", "exception"}

\* flash_firmware without the check of the return code
flash_firmware_unchecked(o) ==
    CASE o = "exit0"     -> TRUE
      [] o = "nonzero"   -> TRUE
      [] o = "timeout"   -> FALSE
      [] o = "exception" -> FALSE

\* flash_firmware: what it returns when subprocess.run ends with outcome o
flash_firmware(o) ==
    CASE o = "exit0"     -> TRUE
      [] o = "nonzero"   -> FALSE
      [] o = "timeout"   -> FALSE
      [] o = "exception" -> FALSE

\* where run_tests goes when the flash loop reaches index i (lines 316 and 337)
after_flash(i) == IF i <= Len(ports) THEN "flash" ELSE "monitor"

\* the settle pause taken after every flash, failed or not
always_settle(success) == "settle"

\* where run_tests goes after flash_firmware returned success (lines 327-329)
after_flash_return(success) == IF success THEN "settle" ELSE "next"

-----------------------------------------------------------------------------
(* Serial Monitor and collection *)

\* the duration passed to monitor_serial (line 210)
MonitorDuration == 90
\* timeout of serial.Serial (line 119)
ReadTimeout == 1
\* the collection window (line 220)
CollectWindow == 95
\* timeout of output_queue.get (line 222)
GetTimeout == 1
\* timeout of thread.join (line 229)
JoinTimeout == 5

\* the lines a monitored device emits during a run
RunLines == {"Kyber keypair generated", "ERROR radio"}

\* `while time.time() - start_time < duration' (line 122)
keep_reading(w, t) == t - w.start_time < w.duration

\* a worker after one pass of its loop body, at time t: in readline again, or returned
next_read(w, t) ==
    IF keep_reading(w, t)
    THEN [w EXCEPT !.st = "read", !.deadline = t + ReadTimeout]
    ELSE [w EXCEPT !.st = "done"]

\* every thread given the first port
new_worker_first_port(i) ==
    [port |-> ports[1], device_name |-> DeviceName[i], duration |-> MonitorDuration,
     st |-> "open", start_time |-> 0, deadline |-> 0, nread |-> 0]

\* threading.Thread(target=self.monitor_serial, args=(port, device_name, output_queue, 90))
new_worker(i) ==
    [port |-> ports[i], device_name |-> DeviceName[i], duration |-> MonitorDuration,
     st |-> "open", start_time |-> 0, deadline |-> 0, nread |-> 0]

\* `while time.time() - start_time < 95' (line 220)
keep_collecting(t) == t - start_time < CollectWindow

\* how long opening a serial port takes when it returns: no time, or MaxOpenDelay seconds
OpenDelays == {0, MaxOpenDelay}

\* a worker thread that has not returned
alive(w) == w.st \in {"open", "read"}

-----------------------------------------------------------------------------
(* The run: main and run_tests *)

\* d[k] = v on a dictionary
assign(d, k, v) == [x \in (DOMAIN d) \cup {k} |-> IF x = k THEN v ELSE d[x]]

envVars == <<args, comports, emits, interrupted_at, deps, helper>>
devVars == <<ports, devices>>
flashVars == <<fi, flash_results, flash_calls, flash_outcome, settles>>
monVars == <<workers, output_queue, put_log, device_logs, start_time, deadline, ji>>
resVars == <<analysis, success_criteria, mesh_result>>
endVars == <<report, report_file, exit_code>>

\* Step 1 of run_tests: find_t_deck_devices, and the early return (lines 308-310)
Discover ==
    /\ pc = "start"
    /\ ports' = find_t_deck_devices(comports)
    /\ IF too_few(ports')
       THEN /\ pc' = "exited"
            /\ exit_code' = exit_status(FALSE)
       ELSE /\ pc' = (IF 1 <= Len(ports') THEN "flash" ELSE "monitor")
            /\ exit_code' = exit_code
    /\ UNCHANGED <<envVars, devices, flashVars, monVars, now, resVars, report, report_file>>

\* the flash loop up to the call of subprocess.run (lines 316-324 and 82-97)
FlashStart ==
    /\ pc = "flash"
    /\ devices' = Append(devices, [name |-> DeviceName[fi], port |-> ports[fi], index |-> fi - 1])
    /\ flash_calls' = Append(flash_calls, [port |-> ports[fi], device_name |-> DeviceName[fi]])
    /\ pc' = "flashing"
    /\ UNCHANGED <<envVars, ports, fi, flash_results, flash_outcome, settles, monVars,
                   now, resVars, endVars>>

\* subprocess.run ends: it returns a CompletedProcess or raises (lines 91-97)
FlashEnds ==
    /\ pc = "flashing"
    /\ flash_outcome' \in FlashOutcomes
    /\ pc' = "flashed"
    /\ UNCHANGED <<envVars, devVars, fi, flash_results, flash_calls, settles, monVars,
                   now, resVars, endVars>>

\* flash_firmware returns and its result is recorded (lines 99-111, 325-327)
FlashReturn ==
    /\ pc = "flashed"
    /\ LET success == flash_firmware(flash_outcome) IN
        /\ flash_results' = assign(flash_results, DeviceName[fi], success)
        /\ IF after_flash_return(success) = "settle"
           THEN /\ pc' = "settle"
                /\ fi' = fi
           ELSE /\ pc' = after_flash(fi + 1)
                /\ fi' = fi + 1
    /\ flash_outcome' = "none"
    /\ UNCHANGED <<envVars, devVars, flash_calls, settles, monVars, now, resVars, endVars>>

\* time.sleep(10) after a successful flash (lines 328-329)
Settle ==
    /\ pc = "settle"
    /\ settles' = Append(settles, DeviceName[fi])
    /\ fi' = fi + 1
    /\ pc' = after_flash(fi + 1)
    /\ UNCHANGED <<envVars, devVars, flash_results, flash_calls, flash_outcome, monVars,
                   now, resVars, endVars>>

\* the join loop reaches thread j (lines 228-229), or analysis when there is none left
EnterJoin(j) ==
    /\ ji' = j
    /\ IF j <= Len(workers')
       THEN /\ pc' = "join"
            /\ deadline' = now + JoinTimeout
       ELSE /\ pc' = "analyze"
            /\ deadline' = deadline

\* the head of the collection loop (line 220): another get, or on to the joins
NextCollect ==
    IF keep_collecting(now)
    THEN /\ pc' = "collect"
         /\ deadline' = now + GetTimeout
         /\ ji' = ji
    ELSE EnterJoin(1)

\* test_mesh_communication up to the first get: both threads started (lines 201-220)
StartMonitors ==
    /\ pc = "monitor"
    /\ device_logs' = [d \in LogDevices |-> <<>>]
    /\ output_queue' = <<>>
    /\ workers' = [i \in 1..Len(ports) |-> new_worker(i)]
    /\ start_time' = now
    /\ pc' = "collect"      \* the first test of line 220 holds: no time has passed
    /\ deadline' = now + GetTimeout
    /\ UNCHANGED <<envVars, devVars, flashVars, put_log, ji, now, resVars, endVars>>

\* the event put at the front of its device's log: insert(0, ...) instead of append
Collect_prepend ==
    /\ pc = "collect"
    /\ output_queue # <<>>
    /\ LET ev == Head(output_queue) IN
       device_logs' = [device_logs EXCEPT ![ev[1]] = <<ev[2]>> \o @]
    /\ output_queue' = Tail(output_queue)
    /\ UNCHANGED workers
    /\ NextCollect
    /\ UNCHANGED <<envVars, devVars, flashVars, put_log, start_time, now, resVars, endVars>>

\* output_queue.get returns an event, which is filed under its device (lines 222-223)
Collect ==
    /\ pc = "collect"
    /\ output_queue # <<>>
    /\ LET ev == Head(output_queue) IN
       device_logs' = [device_logs EXCEPT ![ev[1]] = Append(@, ev[2])]
    /\ output_queue' = Tail(output_queue)
    /\ UNCHANGED workers
    /\ NextCollect
    /\ UNCHANGED <<envVars, devVars, flashVars, put_log, start_time, now, resVars, endVars>>

\* output_queue.get raises queue.Empty after its timeout (lines 224-225)
GetEmpty ==
    /\ pc = "collect"
    /\ output_queue = <<>>
    /\ now = deadline
    /\ UNCHANGED workers
    /\ NextCollect
    /\ UNCHANGED <<envVars, devVars, flashVars, output_queue, put_log, device_logs,
                   start_time, now, resVars, endVars>>

\* thread.join returns because the thread has ended (line 229)
JoinDone ==
    /\ pc = "join"
    /\ ~alive(workers[ji])
    /\ UNCHANGED workers
    /\ EnterJoin(ji + 1)
    /\ UNCHANGED <<envVars, devVars, flashVars, output_queue, put_log, device_logs,
                   start_time, now, resVars, endVars>>

\* thread.join() without a timeout: it never returns while the thread runs
JoinWithoutTimeout == FALSE /\ UNCHANGED vars

\* thread.join returns after its timeout with the thread still running (line 229)
JoinTimedOut ==
    /\ pc = "join"
    /\ alive(workers[ji])
    /\ now = deadline
    /\ UNCHANGED workers
    /\ EnterJoin(ji + 1)
    /\ UNCHANGED <<envVars, devVars, flashVars, output_queue, put_log, device_logs,
                   start_time, now, resVars, endVars>>

\* analysis = self.analyze_log_output(device_logs) (line 234)
Analyze ==
    /\ pc = "analyze"
    /\ analysis' = analyze_log_output(device_logs)
    /\ pc' = "criteria"
    /\ UNCHANGED <<envVars, devVars, flashVars, monVars, now, success_criteria,
                   mesh_result, endVars>>

\* the success criteria and the value test_mesh_communication returns (lines 249-263, 337)
Decide ==
    /\ pc = "criteria"
    /\ success_criteria' = criteria(analysis)
    /\ mesh_result' = overall_success(success_criteria')
    /\ pc' = "report"
    /\ UNCHANGED <<envVars, devVars, flashVars, monVars, now, analysis, endVars>>

\* Step 4 of run_tests: the report is rendered and written to the file (lines 340-345)
Report ==
    /\ pc = "report"
    /\ report' = generate_test_report(flash_results, mesh_result)
    /\ report_file' = report'
    /\ pc' = "return"
    /\ UNCHANGED <<envVars, devVars, flashVars, monVars, now, resVars, exit_code>>

\* run_tests returns and main exits with its status (lines 350, 363-364)
Exit ==
    /\ pc = "return"
    /\ exit_code' = exit_status(run_success(flash_results, mesh_result))
    /\ pc' = "exited"
    /\ UNCHANGED <<envVars, devVars, flashVars, monVars, now, resVars, report, report_file>>

-----------------------------------------------------------------------------
(* The monitor threads: monitor_serial *)

\* the threads run while the process does
threads_run == pc \in {"collect", "join", "analyze", "criteria", "report", "return"}

\* serial.Serial(port, 115200, timeout=1) opens; start_time is taken and the loop entered
\* (lines 119-124)
OpenPort(i) ==
    /\ threads_run
    /\ workers[i].st = "open"
    /\ now \in OpenDelays
    /\ workers' = [workers EXCEPT ![i] = next_read([@ EXCEPT !.start_time = now], now)]
    /\ UNCHANGED <<envVars, pc, devVars, flashVars, output_queue, put_log, device_logs,
                   start_time, deadline, ji, now, resVars, endVars>>

\* serial.Serial raises and the failure ends every monitor thread
OpenFails_all(i) ==
    /\ threads_run
    /\ workers[i].st = "open"
    /\ now \in OpenDelays
    /\ workers' = [j \in DOMAIN workers |-> [workers[j] EXCEPT !.st = "failed"]]
    /\ UNCHANGED <<envVars, pc, devVars, flashVars, output_queue, put_log, device_logs,
                   start_time, deadline, ji, now, resVars, endVars>>

\* serial.Serial raises: the failure is logged and the thread ends (lines 134-135)
OpenFails(i) ==
    /\ threads_run
    /\ workers[i].st = "open"
    /\ now \in OpenDelays
    /\ workers' = [workers EXCEPT ![i].st = "failed"]
    /\ UNCHANGED <<envVars, pc, devVars, flashVars, output_queue, put_log, device_logs,
                   start_time, deadline, ji, now, resVars, endVars>>

\* readline returns a non-empty line, which is put on the queue (lines 124-126)
ReadLine(i) ==
    /\ threads_run
    /\ workers[i].st = "read"
    /\ workers[i].nread < emits
    /\ \E line \in RunLines :
        /\ output_queue' = Append(output_queue, <<workers[i].device_name, line>>)
        /\ put_log' = [put_log EXCEPT ![workers[i].device_name] = Append(@, line)]
    /\ workers' = [workers EXCEPT ![i] = next_read([@ EXCEPT !.nread = @ + 1], now)]
    /\ UNCHANGED <<envVars, pc, devVars, flashVars, device_logs,
                   start_time, deadline, ji, now, resVars, endVars>>

\* readline returns nothing within its timeout: `if line' is false (lines 124-125)
ReadNothing(i) ==
    /\ threads_run
    /\ workers[i].st = "read"
    /\ now = workers[i].deadline
    /\ workers' = [workers EXCEPT ![i] = next_read(@, now)]
    /\ UNCHANGED <<envVars, pc, devVars, flashVars, output_queue, put_log, device_logs,
                   start_time, deadline, ji, now, resVars, endVars>>

\* readline or decode raises and the error reaches the outer handler: the thread ends
ReadError_ends(i) ==
    /\ threads_run
    /\ workers[i].st = "read"
    /\ workers' = [workers EXCEPT ![i].st = "failed"]
    /\ UNCHANGED <<envVars, pc, devVars, flashVars, output_queue, put_log, device_logs,
                   start_time, deadline, ji, now, resVars, endVars>>

\* readline or decode raises: the error is skipped (lines 129-132)
ReadError(i) ==
    /\ threads_run
    /\ workers[i].st = "read"
    /\ workers' = [workers EXCEPT ![i] = next_read(@, now)]
    /\ UNCHANGED <<envVars, pc, devVars, flashVars, output_queue, put_log, device_logs,
                   start_time, deadline, ji, now, resVars, endVars>>

\* the positions of the main thread inside run_tests
RunStages == {"start", "flash", "flashing", "flashed", "settle", "monitor", "collect", "join",
              "analyze", "criteria", "report", "return"}

\* a daemon thread when the process ends: gone, with its locals
killed(w) == [w EXCEPT !.st = "killed", !.start_time = 0, !.deadline = 0, !.nread = 0]

\* KeyboardInterrupt reaches main, which exits with status 1 (lines 365-367); the
\* daemon threads, the queue and the collected logs end with the process
Abort ==
    /\ interrupted_at' = pc
    /\ pc' = "exited"
    /\ exit_code' = 1
    /\ workers' = [i \in DOMAIN workers |-> killed(workers[i])]
    /\ output_queue' = <<>>
    /\ device_logs' = [d \in LogDevices |-> <<>>]
    /\ UNCHANGED <<args, comports, emits, deps, helper, devVars, flashVars, put_log, start_time,
                   deadline, ji, now, resVars, report, report_file>>

\* the interrupt with flash_firmware catching it like any failure of subprocess.run
Interrupt_absorbed ==
    /\ pc \in RunStages
    /\ IF pc = "flashing"
       THEN /\ interrupted_at' = pc
            /\ flash_outcome' = "exception"
            /\ pc' = "flashed"
            /\ UNCHANGED <<args, comports, emits, deps, helper, devVars, fi, flash_results,
                           flash_calls, settles, monVars, now, resVars, endVars>>
       ELSE Abort

\* the user presses Ctrl-C: KeyboardInterrupt is raised in the main thread, wherever
\* it is.  It is not an Exception, so `except subprocess.TimeoutExpired', `except
\* Exception' (lines 106-111) and `except queue.Empty' (line 224) let it pass
Interrupt ==
    /\ pc \in RunStages
    /\ Abort

\* one second passes: the main thread and every thread are inside a blocking call
\* that may last longer
Tick ==
    /\ pc \in {"collect", "join"}
    /\ pc = "collect" => (output_queue = <<>> /\ now < deadline)
    /\ pc = "join" => (alive(workers[ji]) /\ now < deadline)
    /\ \A i \in DOMAIN workers : workers[i].st = "read" => now < workers[i].deadline
    /\ now' = now + 1
    /\ UNCHANGED <<envVars, pc, devVars, flashVars, monVars, resVars, endVars>>


-----------------------------------------------------------------------------
(* The helper scripts, run on the same enumeration *)

\* check_hardware_deps.py: check_usb_devices runs and returns (lines 38-64)
CheckUsbDevices ==
    /\ deps.pc = "start"
    /\ deps' = [pc |-> "done", ready |-> check_usb_devices(comports)]
    /\ UNCHANGED <<args, comports, emits, interrupted_at, helper, pc, devVars, flashVars,
                   monVars, now, resVars, endVars>>

\* flash_t_decks_helper.py: main exits with status 1 when fewer than 2 ports match
\* (lines 24-27), and otherwise flashes the first two, whatever the tool returns
\* (lines 32-45)
FlashHelper ==
    /\ helper.pc = "start"
    /\ LET found == helper_t_deck_ports(comports, 1) IN
       helper' = IF Len(found) < 2
                 THEN [pc |-> "exited", flashed |-> <<>>, exit_code |-> 1]
                 ELSE [pc |-> "exited", flashed |-> first_two(found), exit_code |-> 0]
    /\ UNCHANGED <<args, comports, emits, interrupted_at, deps, pc, devVars, flashVars,
                   monVars, now, resVars, endVars>>

-----------------------------------------------------------------------------
(* Specifications *)

\* the state main starts run_tests in, for a command line a and an enumeration e
Start(a, e) ==
    /\ args = a
    /\ comports = e
    /\ emits = MaxLines
    /\ interrupted_at = NotInterrupted
    /\ deps = deps_not_run
    /\ helper = helper_not_run
    /\ pc = "start"
    /\ ports = <<>>
    /\ devices = <<>>
    /\ fi = 1
    /\ flash_results = <<>>
    /\ flash_calls = <<>>
    /\ flash_outcome = "none"
    /\ settles = <<>>
    /\ workers = <<>>
    /\ output_queue = <<>>
    /\ put_log = [d \in LogDevices |-> <<>>]
    /\ device_logs = [d \in LogDevices |-> <<>>]
    /\ now = 0
    /\ start_time = 0
    /\ deadline = 0
    /\ ji = 1
    /\ analysis = empty_results
    /\ success_criteria = <<>>
    /\ mesh_result = FALSE
    /\ report = NoReport
    /\ report_file = NoReport
    /\ exit_code = Running

Init == \E a \in Args, e \in RunEnumerations : Start(a, e)

\* the command line without flags
NoFlags == [skip_flash |-> FALSE, test_duration |-> DefaultDuration]

\* an enumeration of two T-Decks
TwoDecks == <<[device |-> PortName[1], description |-> "USB Serial"],
              [device |-> PortName[2], description |-> "ESP32-S3"]>>

\* a run with two T-Decks at position p of test_mesh_communication or later, with
\* flash results fr, collected logs and analysis a, the devices having n lines to emit
Midway(p, fr, logs, a, n) ==
    /\ args = NoFlags
    /\ comports = TwoDecks
    /\ emits = n
    /\ interrupted_at = NotInterrupted
    /\ deps = deps_not_run
    /\ helper = helper_not_run
    /\ pc = p
    /\ ports = find_t_deck_devices(TwoDecks)
    /\ devices = [i \in 1..2 |-> [name |-> DeviceName[i], port |-> PortName[i], index |-> i - 1]]
    /\ fi = 3
    /\ flash_results = fr
    /\ flash_calls = [i \in 1..2 |-> [port |-> PortName[i], device_name |-> DeviceName[i]]]
    /\ flash_outcome = "none"
    /\ settles = <<>>
    /\ workers = <<>>
    /\ output_queue = <<>>
    /\ put_log = logs
    /\ device_logs = logs
    /\ now = 0
    /\ start_time = 0
    /\ deadline = 0
    /\ ji = 1
    /\ analysis = a
    /\ success_criteria = <<>>
    /\ mesh_result = FALSE
    /\ report = NoReport
    /\ report_file = NoReport
    /\ exit_code = Running

\* the lines the logs handed to the analyzer are made of
LogLines == {"KyberCryptoEngine created", "Kyber keypair generated",
             "KYBER_MSG_KEY_EXCHANGE_REQUEST sent", "quantum security active",
             "KYBER_MSG_KEY_EXCHANGE_REQUEST failed"}

\* the logs of at most n lines
LogsUpTo(n) == UNION {[1..k -> LogLines] : k \in 0..n}

\* the analyzer and the verdict, on every pair of logs of at most MaxLogLen lines
InitAnalyze ==
    \E logs \in [LogDevices -> LogsUpTo(MaxLogLen)] :
        Midway("analyze", [d \in LogDevices |-> TRUE], logs, empty_results, 0)

NextAnalyze == Analyze \/ Decide

SpecAnalyze == InitAnalyze /\ [][NextAnalyze]_vars

\* the lines the logs drawn for the error criterion are made of
ErrorLogLines == {"ERROR radio", "boot ok"}

\* the analyzer and the verdict, on every pair of logs of at most MaxErrorLines lines
\* with or without an error token
InitErrors ==
    \E logs \in [LogDevices -> UNION {[1..k -> ErrorLogLines] : k \in 0..MaxErrorLines}] :
        Midway("analyze", [d \in LogDevices |-> TRUE], logs, empty_results, 0)

SpecErrors == InitErrors /\ [][NextAnalyze]_vars

\* the analysis results the verdict is drawn over
AnalysisResults ==
    {[kyber_init              |-> ki,
      key_generation          |-> kg,
      key_exchange_attempts   |-> ke,
      sessions_established    |-> [d \in LogDevices |-> 0],
      quantum_security_active |-> [d \in LogDevices |-> FALSE],
      mesh_packets            |-> [d \in LogDevices |-> 0],
      errors                  |-> er] :
        ki \in [LogDevices -> BOOLEAN], kg \in [LogDevices -> BOOLEAN],
        ke \in [LogDevices -> 0..MaxAttempts], er \in [LogDevices -> 0..MaxCount]}

\* the verdict, the report and the exit status, on every analysis result and flash result
InitVerdict ==
    \E a \in AnalysisResults, fr \in [LogDevices -> BOOLEAN] :
        Midway("criteria", fr, [d \in LogDevices |-> <<>>], a, 0)

NextVerdict == Decide \/ Report \/ Exit

SpecVerdict == InitVerdict /\ [][NextVerdict]_vars

\* the Device Locator, on every enumeration of at most MaxPorts endpoints
InitLocator == \E e \in Enumerations : Start(NoFlags, e)

NextLocator == Discover

SpecLocator == InitLocator /\ [][NextLocator]_vars

NextReadiness == CheckUsbDevices \/ Discover \/ FlashHelper

\* the dependency check, the Device Locator of the test suite and the flash helper,
\* each run once on the same enumeration of at most MaxPorts endpoints
SpecReadiness == InitLocator /\ [][NextReadiness]_vars

Next ==
    \/ Discover
    \/ FlashStart
    \/ FlashEnds
    \/ FlashReturn
    \/ Settle
    \/ StartMonitors
    \/ Collect
    \/ GetEmpty
    \/ JoinDone
    \/ JoinTimedOut
    \/ Analyze
    \/ Decide
    \/ Report
    \/ Exit
    \/ \E i \in DOMAIN workers : OpenPort(i)
    \/ \E i \in DOMAIN workers : OpenFails(i)
    \/ \E i \in DOMAIN workers : ReadLine(i)
    \/ \E i \in DOMAIN workers : ReadNothing(i)
    \/ \E i \in DOMAIN workers : ReadError(i)
    \/ Tick

\* a whole run of the test suite
Spec == Init /\ [][Next]_vars

\* test_mesh_communication in its first get, both ports opened at once and both
\* workers in their first readline, each device with MaxLines + 1 lines to emit
InitCollect ==
    /\ args = NoFlags
    /\ comports = TwoDecks
    /\ emits = MaxLines + 1
    /\ interrupted_at = NotInterrupted
    /\ deps = deps_not_run
    /\ helper = helper_not_run
    /\ pc = "collect"
    /\ ports = find_t_deck_devices(TwoDecks)
    /\ devices = [i \in 1..2 |-> [name |-> DeviceName[i], port |-> PortName[i], index |-> i - 1]]
    /\ fi = 3
    /\ flash_results = [d \in LogDevices |-> TRUE]
    /\ flash_calls = [i \in 1..2 |-> [port |-> PortName[i], device_name |-> DeviceName[i]]]
    /\ flash_outcome = "none"
    /\ settles = <<>>
    /\ workers = [i \in 1..2 |-> next_read(new_worker(i), 0)]
    /\ output_queue = <<>>
    /\ put_log = [d \in LogDevices |-> <<>>]
    /\ device_logs = [d \in LogDevices |-> <<>>]
    /\ now = 0
    /\ start_time = 0
    /\ deadline = GetTimeout
    /\ ji = 1
    /\ analysis = empty_results
    /\ success_criteria = <<>>
    /\ mesh_result = FALSE
    /\ report = NoReport
    /\ report_file = NoReport
    /\ exit_code = Running

\* both threads return within 90 seconds, before the collection loop ends, so that
\* no join times out
NextCollectStage ==
    \/ Collect
    \/ GetEmpty
    \/ JoinDone
    \/ Analyze
    \/ \E i \in DOMAIN workers : ReadLine(i)
    \/ \E i \in DOMAIN workers : ReadNothing(i)
    \/ \E i \in DOMAIN workers : ReadError(i)
    \/ Tick

\* the collection of the workers' events, up to the analysis of the logs
SpecCollect == InitCollect /\ [][NextCollectStage]_vars

\* a whole run in which the process is not stopped from outside: while some thread
\* can take a step or a blocking call can go on waiting, one of them does
FairSpec == Spec /\ WF_vars(Next)

NextInterrupt == Next \/ Interrupt

\* a whole run during which the user may press Ctrl-C
SpecInterrupt == Init /\ [][NextInterrupt]_vars
-----------------------------------------------------------------------------
(* Properties *)

\* the three lines of the key-exchange scenario
ScenarioLog == <<"KyberCryptoEngine created", "Kyber keypair generated",
                 "KYBER_MSG_KEY_EXCHANGE_REQUEST sent">>

\* the descriptions that contain cp210, esp32, serial or usb in some casing
KeywordDescriptions == {"CP2102 USB to UART Bridge", "USB Serial", "ESP32-S3"}

\* the endpoints of an enumeration whose description contains a keyword, by position
Candidates(cp) == {i \in DOMAIN cp : cp[i].description \in KeywordDescriptions}

\* C1: when both devices' logs are the three scenario lines, the analysis reports
\* init and keygen detected for both devices, two exchange attempts in total, no
\* errors, and the verdict is true.
C1_ScenarioPasses ==
    (pc = "report" /\ \A d \in LogDevices : device_logs[d] = ScenarioLog) =>
        /\ \A d \in LogDevices :
            /\ analysis.kyber_init[d] = TRUE
            /\ analysis.key_generation[d] = TRUE
            /\ analysis.errors[d] = 0
        /\ analysis.key_exchange_attempts["T-Deck-1"]
             + analysis.key_exchange_attempts["T-Deck-2"] = 2
        /\ mesh_result = TRUE

\* C2: the verdict is true exactly when all four criteria hold: init detected for
\* every device, keygen detected for every device, some exchange attempt, and fewer
\* than 5 errors on every device; each criterion is reported as it holds.
C2_OverallIffAllCriteria ==
    pc \in {"report", "return", "exited"} =>
        LET init   == \A d \in LogDevices : analysis.kyber_init[d]
            keygen == \A d \in LogDevices : analysis.key_generation[d]
            exch   == analysis.key_exchange_attempts["T-Deck-1"]
                       + analysis.key_exchange_attempts["T-Deck-2"] > 0
            errs   == \A d \in LogDevices : analysis.errors[d] < 5
        IN  /\ success_criteria.both_init = init
            /\ success_criteria.both_keygen = keygen
            /\ success_criteria.key_exchanges = exch
            /\ success_criteria.low_errors = errs
            /\ mesh_result = (init /\ keygen /\ exch /\ errs)

\* C2 witness: only the error criterion fails, by one device reaching 5 errors,
\* and the verdict is false
C2_Witness ==
    /\ pc = "report"
    /\ \A d \in LogDevices : analysis.kyber_init[d] /\ analysis.key_generation[d]
    /\ analysis.key_exchange_attempts["T-Deck-1"] = 1
    /\ analysis.errors["T-Deck-1"] = 5
    /\ analysis.errors["T-Deck-2"] = 0
    /\ mesh_result = FALSE

\* C3: the process exits with status 0 exactly when every flash result is true and
\* the mesh verdict is true, with status 1 otherwise, and the report's overall line
\* says the same.
C3_RunSuccessIffAll ==
    pc = "exited" =>
        LET good == /\ \A d \in DOMAIN flash_results : flash_results[d]
                    /\ mesh_result
        IN  /\ exit_code = (IF good THEN 0 ELSE 1)
            /\ report_file.overall = (IF good THEN "ALL TESTS PASSED" ELSE "SOME TESTS FAILED")

\* C3 witness: the first flash failed, the second succeeded, the mesh verdict is
\* true, and the run ended with status 1
C3_Witness ==
    /\ pc = "exited"
    /\ flash_results["T-Deck-1"] = FALSE
    /\ flash_results["T-Deck-2"] = TRUE
    /\ mesh_result = TRUE
    /\ exit_code = 1

\* C4, step by step: a flash that timed out, exited non-zero or raised is recorded
\* as false for its device and the run goes on, to the next flash or to monitoring.
C4_FailureRecorded ==
    (pc = "flashed" /\ flash_outcome # "exit0" /\ pc' # "flashed") =>
        /\ DeviceName[fi] \in DOMAIN flash_results'
        /\ flash_results'[DeviceName[fi]] = FALSE
        /\ pc' = (IF fi < Len(ports) THEN "flash" ELSE "monitor")

\* C4, in every state: once the flash loop is over each selected port has had its
\* flash invocation, and once monitoring has started there is a worker on each
\* selected port, whatever the flash results.
C4_RunGoesOn ==
    /\ (pc \notin {"start", "flash", "flashing", "flashed", "settle"} /\ Len(ports) = 2) =>
            /\ Len(flash_calls) = 2
            /\ \A i \in 1..2 : flash_calls[i].port = ports[i]
            /\ DOMAIN flash_results = {"T-Deck-1", "T-Deck-2"}
    /\ (pc \notin {"start", "flash", "flashing", "flashed", "settle", "monitor"}
            /\ Len(ports) = 2) =>
            /\ Len(workers) = 2
            /\ \A i \in 1..2 : workers[i].port = ports[i]

\* C4: a failed flash is recorded as false and does not abort the run: the other
\* device is still flashed and monitoring is still started for both endpoints.
C4_FlashFailureDoesNotAbort == [][C4_FailureRecorded]_vars /\ []C4_RunGoesOn

\* C4 witness: the first flash failed, the second was attempted, and both monitor
\* workers are running
C4_Witness ==
    /\ pc = "collect"
    /\ flash_results["T-Deck-1"] = FALSE
    /\ Len(flash_calls) = 2
    /\ Len(workers) = 2
    /\ \A i \in 1..2 : workers[i].st = "read"

\* C5: when fewer than 2 enumerated endpoints match the keywords, the run ends with
\* status 1 and there is no flash invocation, no monitor worker and no report file.
C5_TooFewDevicesAborts ==
    (pc # "start" /\ Cardinality(Candidates(comports)) < 2) =>
        /\ pc = "exited"
        /\ exit_code = 1
        /\ flash_calls = <<>>
        /\ workers = <<>>
        /\ report_file = NoReport

\* C5 witness: one endpoint matched and the run has ended
C5_Witness ==
    /\ pc = "exited"
    /\ Cardinality(Candidates(comports)) = 1
    /\ exit_code = 1

\* C6: find_t_deck_devices returns nothing when fewer than 2 endpoints match, and
\* otherwise the two matching endpoints that come first in the enumeration, in order.
C6_FirstTwoCandidates ==
    pc # "start" =>
        LET c == Candidates(comports) IN
        /\ Len(ports) <= 2
        /\ IF Cardinality(c) < 2
           THEN ports = <<>>
           ELSE \E i, j \in c :
                    /\ i < j
                    /\ \A k \in c : k = i \/ k >= j
                    /\ ports = <<comports[i].device, comports[j].device>>

\* C6 witness: three endpoints match, the second with an upper-case keyword, and the
\* first two are returned
C6_Witness ==
    /\ pc # "start"
    /\ Cardinality(Candidates(comports)) = 3
    /\ comports[2].description = "ESP32-S3"
    /\ ports = <<PortName[1], PortName[2]>>

\* C7: in a run started with --skip-flash there is no flash invocation.
C7_SkipFlashBypasses == args.skip_flash => flash_calls = <<>>

\* C8: every monitor worker's duration is the --test-duration of the command line.
C8_DurationFromCommandLine ==
    \A i \in DOMAIN workers : workers[i].duration = args.test_duration

\* C9: when analyze_log_output is called, every line a worker has put on the queue
\* is in its device's log and the queue is empty.
C9_NoLineLost ==
    pc = "analyze" =>
        /\ output_queue = <<>>
        /\ \A d \in LogDevices : device_logs[d] = put_log[d]

\* C10: every device of the analyzer's input has an entry in each of the seven
\* categories, and for an empty log the entries are false and 0.
C10_EveryCategoryPresent ==
    pc \in {"criteria", "report"} =>
        \A d \in DOMAIN device_logs :
            /\ \A c \in {"kyber_init", "key_generation", "key_exchange_attempts",
                          "sessions_established", "quantum_security_active",
                          "mesh_packets", "errors"} :
                   c \in DOMAIN analysis /\ d \in DOMAIN analysis[c]
            /\ device_logs[d] = <<>> =>
                   /\ analysis.kyber_init[d] = FALSE
                   /\ analysis.key_generation[d] = FALSE
                   /\ analysis.quantum_security_active[d] = FALSE
                   /\ analysis.key_exchange_attempts[d] = 0
                   /\ analysis.sessions_established[d] = 0
                   /\ analysis.mesh_packets[d] = 0
                   /\ analysis.errors[d] = 0

\* C10 witness: one device's log is empty, the other's is not, and the analysis is done
C10_Witness ==
    /\ pc = "criteria"
    /\ device_logs["T-Deck-1"] = <<>>
    /\ device_logs["T-Deck-2"] = <<"quantum security active">>
    /\ analysis.quantum_security_active["T-Deck-2"] = TRUE

\* the number of entries of a log that are lines of the set S
Count(log, S) == Cardinality({i \in DOMAIN log : log[i] \in S})

\* the lines that contain an error or fail token in some casing
ErrorTokenLines == {"KYBER_MSG_KEY_EXCHANGE_REQUEST failed", "ERROR radio"}

\* the lines that contain KYBER_MSG_KEY_EXCHANGE_REQUEST or Initiating Kyber key exchange
ExchangeRequestLines == {"KYBER_MSG_KEY_EXCHANGE_REQUEST sent",
                         "KYBER_MSG_KEY_EXCHANGE_REQUEST failed"}

\* C11: a log line that is a key-exchange-request line and also contains an error or
\* fail token adds one to the exchange-attempt count and one to the error count of
\* its device: a log of n such lines gives both counts n.
C11_BothCountersIncrement ==
    pc = "criteria" =>
        \A d \in LogDevices :
            (device_logs[d] # <<>> /\ \A i \in DOMAIN device_logs[d] :
                device_logs[d][i] \in ExchangeRequestLines \cap ErrorTokenLines) =>
                    /\ analysis.key_exchange_attempts[d] = Len(device_logs[d])
                    /\ analysis.errors[d] = Len(device_logs[d])

\* C12: a device whose log has n lines with an error or fail token gets error count
\* n; the low-errors criterion is true exactly when every device's count is at most
\* 4; and a device with 5 or more such lines makes the criterion and the verdict
\* false whatever the other device's log.
C12_StrictErrorThreshold ==
    pc = "report" =>
        LET n == [d \in LogDevices |-> Count(device_logs[d], ErrorTokenLines)] IN
        /\ \A d \in LogDevices : analysis.errors[d] = n[d]
        /\ success_criteria.low_errors = (\A d \in LogDevices : n[d] <= 4)
        /\ (\E d \in LogDevices : n[d] >= 5) =>
               (success_criteria.low_errors = FALSE /\ mesh_result = FALSE)

\* C12 witness: one device's log is 6 lines containing ERROR, the other's has none,
\* the error count is 6 and the criterion and the verdict are false
C12_Witness ==
    /\ pc = "report"
    /\ device_logs["T-Deck-1"] = [i \in 1..6 |-> "ERROR radio"]
    /\ device_logs["T-Deck-2"] = <<"boot ok">>
    /\ analysis.errors["T-Deck-1"] = 6
    /\ analysis.errors["T-Deck-2"] = 0
    /\ success_criteria.low_errors = FALSE
    /\ mesh_result = FALSE

\* the positions of the main thread before test_mesh_communication starts the threads
BeforeMonitoring == {"start", "flash", "flashing", "flashed", "settle", "monitor"}

\* C13: after a user interrupt the process has exited with status 1 and no later stage
\* has run: an interrupted flash has no recorded result and no settle pause, no flash
\* follows it, no worker is started when the interrupt came before monitoring, there
\* is no analysis when it came before the analysis, and no report when it came before
\* the report was written.
C13_InterruptAborts ==
    interrupted_at # NotInterrupted =>
        /\ pc = "exited"
        /\ exit_code = 1
        /\ interrupted_at # "return" => (report = NoReport /\ report_file = NoReport)
        /\ interrupted_at \in BeforeMonitoring \cup {"collect", "join", "analyze"} =>
               (analysis = empty_results /\ success_criteria = <<>>)
        /\ interrupted_at \in BeforeMonitoring => workers = <<>>
        /\ interrupted_at = "start" => (ports = <<>> /\ flash_calls = <<>>)
        /\ interrupted_at \in {"flashing", "flashed"} =>
               /\ Len(flash_calls) = fi
               /\ DeviceName[fi] \notin DOMAIN flash_results
               /\ \A k \in DOMAIN settles : settles[k] # DeviceName[fi]
        /\ interrupted_at = "settle" => Len(flash_calls) = fi

\* C13 witness: the interrupt came during the first flash; the run ended with status
\* 1, no result recorded for the device, the second device not flashed, no report
C13_Witness ==
    /\ interrupted_at = "flashing"
    /\ pc = "exited"
    /\ exit_code = 1
    /\ Len(flash_calls) = 1
    /\ flash_results = <<>>
    /\ report_file = NoReport

\* C14, in every state: the collection loop is left within the window plus one get
\* timeout, and the i-th join within a further i join timeouts.
C14_BoundedWaits ==
    /\ pc = "collect" => now - start_time < CollectWindow + GetTimeout
    /\ pc = "join" => now - start_time < CollectWindow + GetTimeout + ji * JoinTimeout

\* C14: a run in which discovery selects 2 devices eventually analyzes the logs and
\* writes the report file, whatever the flash outcomes, open failures and read errors,
\* and also when a worker thread never returns; the waits of the collection loop
\* and of the joins are bounded.
C14_ReportEventuallyWritten ==
    /\ []C14_BoundedWaits
    /\ (Len(ports) = 2) ~> (analysis # empty_results /\ report_file # NoReport)

\* C14 witness: both flashes failed, one port failed to open and the other worker
\* is still hung in opening its port, and the report is written
C14_Witness ==
    /\ report_file # NoReport
    /\ \A d \in LogDevices : flash_results[d] = FALSE
    /\ workers[1].st = "failed"
    /\ workers[2].st = "open"

\* the categories of the analysis that are flags, and those that are counts
BooleanCategories == {"kyber_init", "key_generation", "quantum_security_active"}
CountingCategories == {"key_exchange_attempts", "sessions_established", "mesh_packets",
                       "errors"}

\* what the analyzer's loop over one device's log yields, for every log drawn
AfterLog == [log \in LogsUpTo(MaxLogLen) |-> scan_logs(initial_metrics, log, 1)]

\* C15: for every device log and every split of it into first lines L and further
\* lines M, a flag that is true after analyzing L is true after analyzing the whole
\* log, and a count after the whole log is at least the count after L and at most
\* that count plus the number of lines of M.
C15_MonotonicUnderExtension ==
    pc = "criteria" =>
        \A d \in LogDevices : \A k \in 0..Len(device_logs[d]) :
            LET L     == SubSeq(device_logs[d], 1, k)
                added == Len(device_logs[d]) - k
                after == AfterLog[L]
            IN  /\ \A c \in BooleanCategories : after[c] => analysis[c][d]
                /\ \A c \in CountingCategories :
                       /\ after[c] <= analysis[c][d]
                       /\ analysis[c][d] <= after[c] + added

\* C15 witness: the flag set and the count raised by the first line are kept through
\* two further lines, of which one raises another count
C15_Witness ==
    /\ pc = "criteria"
    /\ device_logs["T-Deck-1"] = <<"quantum security active", "Kyber keypair generated",
                                   "KYBER_MSG_KEY_EXCHANGE_REQUEST failed">>
    /\ analysis.quantum_security_active["T-Deck-1"] = TRUE
    /\ analysis.sessions_established["T-Deck-1"] = 1
    /\ analysis.errors["T-Deck-1"] = 1

\* the lines of device d that are on the queue, in queue order
queued_lines(d) ==
    LET q == SelectSeq(output_queue, LAMBDA ev : ev[1] = d)
    IN  [i \in 1..Len(q) |-> q[i][2]]

\* C19: in every state and for each device, the device's log followed by the device's
\* lines still on the queue is the sequence of lines its worker has put, in the order
\* of the puts: a log holds its own device's lines only, in the order they were put.
C19_LogOrderIsPutOrder ==
    \A d \in LogDevices : device_logs[d] \o queued_lines(d) = put_log[d]

\* C19 witness: both devices have put two different lines, in opposite orders, and
\* each log holds its device's lines in the order of the puts
C19_Witness ==
    /\ put_log["T-Deck-1"] = <<"Kyber keypair generated", "ERROR radio">>
    /\ put_log["T-Deck-2"] = <<"ERROR radio", "Kyber keypair generated">>
    /\ device_logs = put_log

\* C16, step by step: a worker that is reading goes on reading unless 90 seconds have
\* passed since it opened its port, and then it returns; a worker ends as failed
\* only from opening its port; a worker that has ended stays so.
C16_WorkerStep ==
    \A i \in DOMAIN workers :
        /\ (workers[i].st = "read" /\ workers'[i].st # "read") =>
               /\ workers'[i].st = "done"
               /\ now - workers[i].start_time >= MonitorDuration
        /\ (workers[i].st # "failed" /\ workers'[i].st = "failed") => workers[i].st = "open"
        /\ workers[i].st \in {"done", "failed"} => workers'[i] = workers[i]

\* C16: no read outcome, a read error included, ends a worker before its duration
\* has expired: a worker ends by duration expiry or by failing to open its port.
C16_ReadErrorsDoNotEndWorker == [][C16_WorkerStep]_vars

\* C16 witness: one worker has read for its whole duration and returned, the other
\* failed to open its port
C16_Witness ==
    /\ Len(workers) = 2
    /\ workers[1].st = "done"
    /\ workers[1].nread = 0
    /\ now - workers[1].start_time >= MonitorDuration
    /\ workers[2].st = "failed"

flashes_in_progress == Len(flash_calls) - Cardinality(DOMAIN flash_results)

\* C18: at most one flash invocation is in progress, and only inside flash_firmware;
\* each selected port is flashed at most once, in order; when a flash starts every
\* earlier flash has returned and, if it succeeded, has had its settle pause; a
\* settle pause follows successful flashes only, once each.
C18_FlashesSequential ==
    /\ flashes_in_progress \in {0, 1}
    /\ flashes_in_progress = 1 <=> pc \in {"flashing", "flashed"}
    /\ Len(flash_calls) <= Len(ports)
    /\ \A k \in DOMAIN flash_calls :
        /\ flash_calls[k].port = ports[k]
        /\ flash_calls[k].device_name = DeviceName[k]
        /\ \A l \in DOMAIN flash_calls : l # k => flash_calls[l].port # flash_calls[k].port
        /\ k < Len(flash_calls) =>
            /\ DeviceName[k] \in DOMAIN flash_results
            /\ flash_results[DeviceName[k]] => \E n \in DOMAIN settles : settles[n] = DeviceName[k]
    /\ \A n \in DOMAIN settles :
        /\ settles[n] \in DOMAIN flash_results
        /\ flash_results[settles[n]] = TRUE
        /\ \A o \in DOMAIN settles : o # n => settles[o] # settles[n]

\* C18 witness: the first flash failed and had no settle pause, the second was
\* started after it, succeeded and had its pause; each device was flashed once
C18_Witness ==
    /\ pc = "monitor"
    /\ Len(flash_calls) = 2
    /\ flash_results["T-Deck-1"] = FALSE
    /\ flash_results["T-Deck-2"] = TRUE
    /\ settles = <<"T-Deck-2">>

\* C20: while a flash invocation is pending or to come there is no monitor worker;
\* once there are workers, every selected port has had its flash invocation returned,
\* and there are exactly two workers, the i-th on the i-th selected port, the two
\* ports being different endpoints of the enumeration.
C20_StagesDoNotOverlap ==
    /\ pc \in BeforeMonitoring => workers = <<>>
    /\ workers # <<>> =>
        /\ flashes_in_progress = 0
        /\ Len(flash_calls) = Len(ports)
        /\ \A k \in DOMAIN ports : DeviceName[k] \in DOMAIN flash_results
        /\ Len(workers) = 2
        /\ Len(ports) = 2
        /\ \A i \in 1..2 : workers[i].port = ports[i]
        /\ workers[1].port # workers[2].port
        /\ \A i \in 1..2 : \E k \in DOMAIN comports : comports[k].device = workers[i].port

\* C20 witness: both flashes have returned, the second by a failure, and the two
\* workers are reading from the two selected ports
C20_Witness ==
    /\ pc = "collect"
    /\ DOMAIN flash_results = LogDevices
    /\ flash_results["T-Deck-2"] = FALSE
    /\ workers[1].port = "/dev/ttyUSB0" /\ workers[1].st = "read"
    /\ workers[2].port = "/dev/ttyUSB2" /\ workers[2].st = "read"

\* C21: on one enumeration, when check_usb_devices has returned true, the test
\* suite's find_t_deck_devices has selected two endpoints and the flash helper has
\* flashed the same two, in the same order.
C21_ReadinessAgrees ==
    (deps.pc = "done" /\ deps.ready /\ pc # "start" /\ helper.pc = "exited") =>
        /\ Len(ports) = 2
        /\ helper.exit_code = 0
        /\ helper.flashed = ports
====
